---------------------------- MODULE Spec2Model ----------------------------
(***************************************************************************)
(* Website Design Analyzer: the analyzers and score aggregation            *)
(* (app/services/scoring.py), palette extraction (app/services/palette.py),*)
(* PDF report layout (app/services/report.py) and the /analyze request     *)
(* handler (app/app.py).                                                   *)
(*                                                                         *)
(* Numbers.  Sub-scores are kept in half points (analyze_typography and    *)
(* analyze_responsive add multiples of 0.5), weights in hundredths, so a   *)
(* weighted sum is an integer number of 1/200 points.  Lengths on the page *)
(* are kept in units of 1/360 mm, in which both the millimetre (360) and   *)
(* the PostScript point (25.4/72 mm = 127) are whole numbers.              *)
(***************************************************************************)
EXTENDS Integers, Sequences, FiniteSets, TLC

VARIABLES
    \* ---- scoring.make_scores / app.label_for / scoring.recommendations
    weights,        \* weights mapping handed to make_scores (hundredths)
    breakdown,      \* category -> sub-score (half points)
    overall,        \* overall score returned by make_scores
    label,          \* label_for(overall)
    tips,           \* recommendations(breakdown, meta)
    spc,            \* position in the scoring pipeline
    pil_image,      \* the image handed to make_scores
    html,           \* the page's html, as the counts the analyzers take
    prev,           \* the html and Typography score of an earlier call
    \* ---- palette.extract_palette
    palArgs,        \* the image (as the results of the passes) and parameters
    dominant,       \* result of the dominant pass
    out,            \* the merged list, then the returned palette
    ppc,            \* position in extract_palette
    \* ---- report.build_pdf
    shot,           \* the screenshot file behind screenshot_path
    tipCap,         \* upper limit on len(tips) of this build_pdf call
    rpc,            \* position in build_pdf
    page,           \* number of the page the canvas is drawing on
    headers,        \* per page: the header drawn on it
    y_px,           \* _draw_screenshot_sliced: first pixel row not yet drawn
    slices,         \* image pieces drawn so far
    placeholder,    \* page of the "could not be rendered" notice, 0 if none
    scorePage,      \* page of the score table and chart, 0 before it
    recsPage,       \* first page of the recommendations, 0 before it
    y,              \* _recommendations: cursor
    tipNo,          \* _recommendations: tips drawn so far
    lastTip,        \* _recommendations: what the last iteration drew
    saved,          \* c.save() was reached
    \* ---- app.analyze
    deps,           \* what _safe_imports_for_analyze and the environment give
    clock,          \* datetime.utcnow(), in whole seconds
    files,          \* DATA_DIR: path -> content
    HISTORY,        \* the in-memory history list, newest first
    sheetRows,      \* rows appended to the spreadsheet
    req             \* per request: the locals of its analyze call

scoreVars ==
    <<weights, breakdown, overall, label, tips, spc, pil_image, html, prev>>

palVars == <<palArgs, dominant, out, ppc>>

pdfVars ==
    <<shot, tipCap, rpc, page, headers, y_px, slices, placeholder,
      scorePage, recsPage, y, tipNo, lastTip, saved>>

appVars == <<deps, clock, files, HISTORY, sheetRows, req>>

vars == <<scoreVars, palVars, pdfVars, appVars>>

-----------------------------------------------------------------------------
(* Scoring                                                                 *)

\* keys of the breakdown dict, in insertion order
BreakdownKeys ==
    <<"Typography", "Color & Contrast", "Layout & Structure",
      "Responsive", "Accessibility">>

Cats == {BreakdownKeys[i] : i \in 1..Len(BreakdownKeys)}

\* the breakdown dict built by make_scores
MkBreakdown(t, c, l, r, a) ==
    [k \in Cats |->
        CASE k = "Typography"         -> t
          [] k = "Color & Contrast"   -> c
          [] k = "Layout & Structure" -> l
          [] k = "Responsive"         -> r
          [] k = "Accessibility"      -> a]

\* one point, in the half-point unit of the sub-scores
Pt2(n) == 2 * n

\* the WEIGHTS literal of analyze
AppWeights ==
    [c \in Cats |->
        CASE c = "Typography"         -> 22
          [] c = "Color & Contrast"   -> 22
          [] c = "Layout & Structure" -> 22
          [] c = "Responsive"         -> 18
          [] c = "Accessibility"      -> 16]

\* WEIGHTS of app/config.py
ConfigWeights ==
    [c \in Cats |->
        CASE c = "Typography"         -> 25
          [] c = "Color & Contrast"   -> 20
          [] c = "Layout & Structure" -> 20
          [] c = "Responsive"         -> 20
          [] c = "Accessibility"      -> 15]

RECURSIVE SumOver(_, _)
SumOver(f, keys) ==
    IF keys = <<>> THEN 0 ELSE f[Head(keys)] + SumOver(f, Tail(keys))

WeightedSumUnweighted(b, w) ==
    SumOver([k \in Cats |-> b[k] * 100], BreakdownKeys)

\* sum(breakdown[k]*weights[k] for k in breakdown), in 1/200 points
WeightedSum(b, w) ==
    SumOver([k \in Cats |-> b[k] * w[k]], BreakdownKeys)

\* int(n/d): truncation toward zero
IntTrunc(n, d) ==
    IF n >= 0 THEN n \div d ELSE -((-n) \div d)

\* A product breakdown[k]*weights[k] is exact in binary floating point when
\* the weight is a multiple of 1/4; otherwise the float sum may differ from
\* the exact sum by a few ulps.
Inexact(b, w) == \E k \in Cats : b[k] # 0 /\ w[k] % 25 # 0

\* int(sum(...)) of make_scores.  The float sum can fall just below an exact
\* whole number (breakdown 63,7,81,39,86 with the analyze weights: exact 54,
\* float 53.99999999999999, overall 53), so both outcomes are possible there.
OverallMutNearest(b, w) ==
    {(WeightedSum(b, w) + 100) \div 200}

OverallOutcomes(b, w) ==
    LET n == WeightedSum(b, w)
    IN  IF n > 0 /\ n % 200 = 0 /\ Inexact(b, w)
        THEN {n \div 200 - 1, n \div 200}
        ELSE {IntTrunc(n, 200)}

\* the LABELS table local to label_for, highest threshold first
LABELS ==
    << <<90, "Excellent">>, <<80, "Great">>, <<70, "Good">>,
       <<60, "Fair">>, <<0, "Needs work">> >>

RECURSIVE label_scan(_, _)
label_scan(score, table) ==
    IF table = <<>> THEN "Needs work"
    ELSE IF score >= Head(table)[1] THEN Head(table)[2]
    ELSE label_scan(score, Tail(table))

RECURSIVE label_scan_strict(_, _)
label_scan_strict(score, table) ==
    IF table = <<>> THEN "Needs work"
    ELSE IF score > Head(table)[1] THEN Head(table)[2]
    ELSE label_scan_strict(score, Tail(table))

label_for_strict(score) == label_scan_strict(score, LABELS)

label_for(score) == label_scan(score, LABELS)

TipTypography    == "Improve typographic hierarchy and legibility"
TipLayout        == "Optimize whitespace and layout structure"
TipColor         == "Increase color contrast and reduce overly similar hues"
TipResponsive    == "Add or refine responsive breakpoints and viewport meta"
TipAccessibility == "Add ARIA labels, ensure alt text on images"
TipGreat         == "Great job! Minor polish only"

AppendIf(cond, s, e) == IF cond THEN Append(s, e) ELSE s

recommendations_le(b) ==
    LET t1 == AppendIf(b["Typography"] <= Pt2(80), <<>>, TipTypography)
        t2 == AppendIf(b["Layout & Structure"] <= Pt2(80), t1, TipLayout)
        t3 == AppendIf(b["Color & Contrast"] <= Pt2(80), t2, TipColor)
        t4 == AppendIf(b["Responsive"] <= Pt2(90), t3, TipResponsive)
        t5 == AppendIf(b["Accessibility"] <= Pt2(85), t4, TipAccessibility)
    IN  IF t5 = <<>> THEN <<TipGreat>> ELSE t5

recommendations_nofallback(b) ==
    LET t1 == AppendIf(b["Typography"] < Pt2(80), <<>>, TipTypography)
        t2 == AppendIf(b["Layout & Structure"] < Pt2(80), t1, TipLayout)
        t3 == AppendIf(b["Color & Contrast"] < Pt2(80), t2, TipColor)
        t4 == AppendIf(b["Responsive"] < Pt2(90), t3, TipResponsive)
    IN  AppendIf(b["Accessibility"] < Pt2(85), t4, TipAccessibility)

recommendations(b) ==
    LET t1 == AppendIf(b["Typography"] < Pt2(80), <<>>, TipTypography)
        t2 == AppendIf(b["Layout & Structure"] < Pt2(80), t1, TipLayout)
        t3 == AppendIf(b["Color & Contrast"] < Pt2(80), t2, TipColor)
        t4 == AppendIf(b["Responsive"] < Pt2(90), t3, TipResponsive)
        t5 == AppendIf(b["Accessibility"] < Pt2(85), t4, TipAccessibility)
    IN  IF t5 = <<>> THEN <<TipGreat>> ELSE t5

\* max(0, min(100, score)), in half points
Clamp(score) == IF score < 0 THEN 0 ELSE IF score > Pt2(100) THEN Pt2(100) ELSE score

Smaller(a, b) == IF a <= b THEN a ELSE b

\* analyze_image_colors line 17: resize((256, int(256*height/width)));
\* Image.resize raises ValueError for a height below 1
ImageRaises(im) == (256 * im.h) \div im.w < 1

\* color_score = int(min(100, max(0, contrast*180 + diversity*40))), with
\* contrast in thousandths and diversity = bins/12
color_score(im) ==
    LET v == (im.contrast * 180 * 12 + im.bins * 40 * 1000) \div 12000
    IN  Clamp(Pt2(v))

\* headings = len(soup.find_all(re.compile('^h[1-6]$')))
headings(h) == h.h1 + h.h2 + h.hOther

\* lines 38-43; inline_sizes*0.5 points is inline_sizes half points
analyze_typography_h1_penalised(h) ==
    Clamp(Pt2(50)
          + (IF h.h1 > 0 THEN -Pt2(10) ELSE Pt2(10))
          + (IF h.h2 > 0 THEN Pt2(8) ELSE 0)
          + Smaller(Pt2(20), headings(h) * Pt2(3))
          + Smaller(Pt2(20), h.sizes))

analyze_typography_whole(h) ==
    Clamp(Pt2(50)
          + (IF h.h1 > 0 THEN Pt2(10) ELSE -Pt2(10))
          + (IF h.h2 > 0 THEN Pt2(8) ELSE 0)
          + Smaller(Pt2(20), headings(h) * Pt2(3))
          + Smaller(Pt2(20), Pt2(h.sizes \div 2)))

analyze_typography(h) ==
    Clamp(Pt2(50)
          + (IF h.h1 > 0 THEN Pt2(10) ELSE -Pt2(10))
          + (IF h.h2 > 0 THEN Pt2(8) ELSE 0)
          + Smaller(Pt2(20), headings(h) * Pt2(3))
          + Smaller(Pt2(20), h.sizes))

\* lines 51-52
analyze_layout(h) ==
    Clamp(Pt2(40) + Smaller(Pt2(30), h.grids * Pt2(2))
                  + Smaller(Pt2(30), h.sections * Pt2(3)))

\* line 57: 'viewport' in html.lower() is true for the meta tag and for any
\* other occurrence of the word in the text of the page
viewport(h) == h.viewportMeta \/ h.viewportText

\* lines 59-60; md_classes*0.5 points is md_classes half points
analyze_responsive_meta(h) ==
    Clamp(Pt2(50) + (IF h.viewportMeta THEN Pt2(25) ELSE -Pt2(10))
                  + Smaller(Pt2(35), h.mq))

analyze_responsive(h) ==
    Clamp(Pt2(50) + (IF viewport(h) THEN Pt2(25) ELSE -Pt2(10))
                  + Smaller(Pt2(35), h.mq))

\* line 68: the number of elements matched by '[aria-label], [role]'; an
\* element with both attributes is matched once, other aria-* attributes
\* match nothing
aria_or_role_attrs(h) == h.ariaLabel + h.role + 2 * h.both + h.otherAria

aria_or_role(h) == h.ariaLabel + h.role + h.both

\* lines 70-71: int(40 + min(30, (with_alt/max(1,imgs))*30) + min(30, aria+labels))
analyze_accessibility(h) ==
    LET n == IF h.imgs >= 1 THEN h.imgs ELSE 1
        k == Smaller(30, aria_or_role(h) + h.labels)
    IN  Clamp(Pt2((40 * n + Smaller(30 * n, h.with_alt * 30) + k * n) \div n))

\* what a call that raised e leaves behind: no return value
RaisedAsDefault(e) == [raised |-> FALSE, error |-> e]

Raised(e) == [raised |-> TRUE, error |-> e]

Returned(o, b) == [raised |-> FALSE, overall |-> o, breakdown |-> b]

\* keys of the weights mapping that line 89 looks up and does not find
MissingKeys(w) == Cats \ DOMAIN w

\* make_scores(pil_image, html, weights): the possible results.  An
\* exception of analyze_image_colors (line 75) or the KeyError of line 89
\* leaves make_scores without a return value.
make_scores(im, h, w) ==
    IF ImageRaises(im) THEN {Raised("ValueError")}
    ELSE LET b == MkBreakdown(analyze_typography(h), color_score(im),
                              analyze_layout(h), analyze_responsive(h),
                              analyze_accessibility(h))
         IN  IF MissingKeys(w) # {} THEN {Raised("KeyError")}
             ELSE {Returned(o, b) : o \in OverallOutcomes(b, w)}

NoPil == [w |-> 1, h |-> 1, contrast |-> 0, bins |-> 1]

\* html without any of the elements, attributes and strings counted
BareHtml ==
    [h1 |-> 0, h2 |-> 0, hOther |-> 0, sizes |-> 0, grids |-> 0,
     sections |-> 0, viewportMeta |-> FALSE, viewportText |-> FALSE,
     mq |-> 0, imgs |-> 0, with_alt |-> 0, ariaLabel |-> 0, role |-> 0,
     both |-> 0, otherAria |-> 0, labels |-> 0]

NoPrev == [set |-> FALSE]

\* no scoring call in progress
ScoreIdle ==
    /\ weights = AppWeights
    /\ breakdown = [c \in Cats |-> 0]
    /\ overall = 0
    /\ label = ""
    /\ tips = <<>>
    /\ spc = "idle"
    /\ pil_image = NoPil
    /\ html = BareHtml
    /\ prev = NoPrev

\* no extract_palette call in progress
PalIdle ==
    /\ palArgs = [kind |-> "none"]
    /\ dominant = <<>>
    /\ out = <<>>
    /\ ppc = "idle"

-----------------------------------------------------------------------------
(* Report layout                                                           *)

\* reportlab.lib.units.mm and the point, in units of 1/360 mm
mm == 360
pt == 127

\* A4
PAGE_W == 210 * mm
PAGE_H == 297 * mm
MARGIN == 14 * mm
LINE_H == 6 * mm

\* bar_h of _draw_header: the bar spans PAGE_H-MARGIN-bar_h .. PAGE_H-MARGIN
bar_h == 14 * mm

usable_w == PAGE_W - 2 * MARGIN
usable_h == PAGE_H - 2 * MARGIN

Max(a, b) == IF a >= b THEN a ELSE b
Min(a, b) == IF a <= b THEN a ELSE b

\* y of build_pdf when the screenshot step starts
y_meta == PAGE_H - MARGIN - 18 * mm - LINE_H - 8 * pt

\* top_used = (PAGE_H - y - MARGIN)
top_used == PAGE_H - y_meta - MARGIN

\* first_page_room = usable_h - top_free_px if first_page else usable_h
first_page_room_full(first_page, top_free_px) == usable_h

first_page_room(first_page, top_free_px) ==
    IF first_page THEN usable_h - top_free_px ELSE usable_h

\* y_cursor = PAGE_H - MARGIN - top_free_px
y_cursor(top_free_px) == PAGE_H - MARGIN - top_free_px

\* scaled_h <= first_page_room + 0.1, with scaled_h = img_h * usable_w / img_w
\* and 0.1 pt = 12.7 units
FitsFirstPage(im, room) ==
    im.h * usable_w <= room * im.w + (pt * im.w) \div 10

\* slice_h_pts = max(1, first_page_room if first_page else usable_h): the
\* page-1 call passes first_page=True, so this is the page-1 room for every
\* slice of the loop
slice_h_pts(first_page, room) ==
    Max(pt, IF first_page THEN room ELSE usable_h)

\* slice_h_px = max(1, int(slice_h_pts / scale)), scale = usable_w / img_w
slice_h_px(im, first_page, room) ==
    Max(1, (slice_h_pts(first_page, room) * im.w) \div usable_w)

\* int(h_px * scale): the pixel height handed to Image.resize
resize_h(im, h_px) == (h_px * usable_w) \div (im.w * pt)

\* Image.resize raises ValueError for a height below 1
ResizeRaises(im, h_px) == resize_h(im, h_px) < 1

\* stringWidth of a line of Helvetica 10: word widths and the space, in
\* 1/100 pt (the AFM width at size 10)
SpaceWidth == 278

stringWidth(line) ==
    IF line = <<>> THEN 0
    ELSE SumOver(line, [i \in 1..Len(line) |-> i]) + SpaceWidth * (Len(line) - 1)

\* c.stringWidth(test, font, size) <= max_w, with max_w = w - 14 in points
FitsWidth(line, max_w) == stringWidth(line) * pt <= max_w * 100

RECURSIVE wrap_loop(_, _, _, _)
wrap_loop(words, line, lines, max_w) ==
    IF words = <<>>
    THEN IF line # <<>> THEN Append(lines, line) ELSE lines
    ELSE LET test == Append(line, Head(words))
         IN  IF FitsWidth(test, max_w)
             THEN wrap_loop(Tail(words), test, lines, max_w)
             ELSE wrap_loop(Tail(words), <<Head(words)>>,
                            IF line # <<>> THEN Append(lines, line) ELSE lines,
                            max_w)

\* _wrap_lines(c, text, font, size, max_w); text is given as the widths of
\* the words of text.split()
_wrap_lines(words, max_w) == wrap_loop(words, <<>>, <<>>, max_w)

\* y at which _recommendations is called and restarted on a new page
y_start == PAGE_H - MARGIN - 18 * mm

NoTip == [page |-> 0, words |-> <<>>, lines |-> <<>>, first |-> 0, low |-> 0]

PdfIdle ==
    /\ shot = [kind |-> "none"]
    /\ tipCap = 0
    /\ rpc = "idle"
    /\ page = 0
    /\ headers = <<>>
    /\ y_px = 0
    /\ slices = <<>>
    /\ placeholder = 0
    /\ scorePage = 0
    /\ recsPage = 0
    /\ y = 0
    /\ tipNo = 0
    /\ lastTip = NoTip
    /\ saved = FALSE

-----------------------------------------------------------------------------
(* analyze                                                                 *)

\* the requests served concurrently (app.run serves each in its own thread)
Requests == {"r1", "r2"}

\* last second of the clock
MaxClock == 2

Timestamps == 0..MaxClock

\* out_dir = DATA_DIR/<timestamp>; shot_path and pdf_path inside it
shot_path(ts) == <<ts, "screenshot.png">>
pdf_path(ts) == <<ts, "report.pdf">>

Paths == {shot_path(ts) : ts \in Timestamps} \cup {pdf_path(ts) : ts \in Timestamps}

Absent == [kind |-> "absent"]

\* the pages behind the URLs tried: one scoring low in every category, one
\* scoring high in every category
PoorUrl == "https://poor.example"
GoodUrl == "https://good.example"
BadUrl  == "poor.example"

UrlInputs == {PoorUrl, GoodUrl, BadUrl}

\* url.startswith('http://') or url.startswith('https://')
ValidUrl(url) == url \in {PoorUrl, GoodUrl}

\* the four HTML analyzers of make_scores on the page's html (half points)
HtmlScores(url) ==
    IF url = GoodUrl
    THEN [t |-> Pt2(100), l |-> Pt2(100), r |-> Pt2(100), a |-> Pt2(100)]
    ELSE [t |-> Pt2(40), l |-> Pt2(40), r |-> Pt2(40), a |-> Pt2(40)]

\* color_score of make_scores on the image found in the screenshot file
ColorScore(img) == IF img = GoodUrl THEN Pt2(90) ELSE Pt2(0)

\* the fallback of analyze when make_scores could not be imported
FallbackBreakdown == MkBreakdown(Pt2(76), Pt2(74), Pt2(77), Pt2(75), Pt2(73))

NoReq ==
    [pc |-> "idle", url |-> "", timestamp |-> 0, pil |-> "",
     overall |-> 0, breakdown |-> [c \in Cats |-> 0], label |-> "",
     tips_list |-> <<>>, drive_links |-> "none", result |-> "",
     \* not locals: what happened inside the two try blocks of lines 278-299
     drive_out |-> "skipped", sheet_out |-> "skipped",
     \* not locals: the step whose exception ended the request, and
     \* whether build_pdf was called
     failed_at |-> "", pdf_written |-> FALSE]

AppIdle ==
    /\ deps = [scoring |-> TRUE, drive |-> FALSE, sheets |-> FALSE]
    /\ clock = 0
    /\ files = [p \in Paths |-> Absent]
    /\ HISTORY = <<>>
    /\ sheetRows = <<>>
    /\ req = [r \in Requests |-> NoReq]

AppInit ==
    /\ deps \in [scoring : BOOLEAN, drive : BOOLEAN, sheets : BOOLEAN]
    /\ clock = 0
    /\ files = [p \in Paths |-> Absent]
    /\ HISTORY = <<>>
    /\ sheetRows = <<>>
    /\ req = [r \in Requests |-> NoReq]

\* the wall clock moves on
Tick ==
    /\ clock < MaxClock
    /\ clock' = clock + 1
    /\ UNCHANGED <<deps, files, HISTORY, sheetRows, req>>
    /\ UNCHANGED <<scoreVars, palVars, pdfVars>>

\* analyze lines 188-213: session and URL checks, then the timestamp and
\* the output directory
Begin(r) ==
    /\ req[r].pc = "idle"
    /\ \E user \in BOOLEAN, url \in UrlInputs :
          req' = [req EXCEPT ![r] =
              IF ~user
              THEN [@ EXCEPT !.pc = "done", !.url = url, !.result = "login"]
              ELSE IF ~ValidUrl(url)
              THEN [@ EXCEPT !.pc = "done", !.url = url, !.result = "invalid url"]
              ELSE [@ EXCEPT !.pc = "capture", !.url = url,
                             !.timestamp = clock]]
    /\ UNCHANGED <<deps, clock, files, HISTORY, sheetRows>>
    /\ UNCHANGED <<scoreVars, palVars, pdfVars>>

\* lines 216-219: capture_screenshot writes the page into shot_path, or
\* raises; the except clause of lines 321-326 ends the request
Capture(r) ==
    /\ req[r].pc = "capture"
    /\ \E ok \in BOOLEAN :
          IF ok
          THEN /\ files' = [files EXCEPT ![shot_path(req[r].timestamp)] =
                               [kind |-> "screenshot", of |-> req[r].url]]
               /\ req' = [req EXCEPT ![r].pc = "score"]
          ELSE /\ req' = [req EXCEPT ![r].pc = "done", ![r].result = "ERROR",
                                    ![r].failed_at = "capture"]
               /\ UNCHANGED files
    /\ UNCHANGED <<deps, clock, HISTORY, sheetRows>>
    /\ UNCHANGED <<scoreVars, palVars, pdfVars>>

\* lines 221-263: open the screenshot file, score it with the page's html
\* (or take the fallback numbers), label, tips
Score(r) ==
    /\ req[r].pc = "score"
    /\ LET pil == files[shot_path(req[r].timestamp)].of
           h   == HtmlScores(req[r].url)
           b   == IF deps.scoring
                  THEN MkBreakdown(h.t, ColorScore(pil), h.l, h.r, h.a)
                  ELSE FallbackBreakdown
           os  == IF deps.scoring THEN OverallOutcomes(b, AppWeights) ELSE {75}
       IN  \/ \E o \in os :
                 req' = [req EXCEPT ![r] =
                     [@ EXCEPT !.pc = "pdf", !.pil = pil, !.breakdown = b,
                               !.overall = o, !.label = label_for(o),
                               !.tips_list = IF deps.scoring
                                             THEN recommendations(b) ELSE <<>>]]
           \* make_scores raises: the except clause of lines 321-326
           \/ /\ deps.scoring
              /\ req' = [req EXCEPT ![r].pc = "done", ![r].result = "ERROR",
                                    ![r].failed_at = "make_scores"]
    /\ UNCHANGED <<deps, clock, files, HISTORY, sheetRows>>
    /\ UNCHANGED <<scoreVars, palVars, pdfVars>>

\* lines 266-276: build_pdf reads the screenshot file and writes pdf_path,
\* or raises before c.save() (report.py line 328) has written the file; the
\* except clause of lines 321-326 ends the request
BuildPdf(r) ==
    /\ req[r].pc = "pdf"
    /\ \/ /\ files' = [files EXCEPT ![pdf_path(req[r].timestamp)] =
                          [kind |-> "pdf", url |-> req[r].url,
                           overall |-> req[r].overall, label |-> req[r].label,
                           tips |-> req[r].tips_list,
                           shot |-> files[shot_path(req[r].timestamp)].of]]
          /\ req' = [req EXCEPT ![r].pc = "upload", ![r].pdf_written = TRUE]
       \/ /\ req' = [req EXCEPT ![r].pc = "done", ![r].result = "ERROR",
                                ![r].failed_at = "build_pdf"]
          /\ UNCHANGED files
    /\ UNCHANGED <<deps, clock, HISTORY, sheetRows>>
    /\ UNCHANGED <<scoreVars, palVars, pdfVars>>

\* what the two upload_file calls can do: return the links, raise, or (with
\* pydrive2 not installed, drive.py lines 21-22) return {"error": ...}
\* without raising
DriveOutcomes == {"links", "raised", "unavailable"}

\* what append_log can do
SheetOutcomes == {"ok", "raised"}

\* drive_links after lines 279-289: {} when the upload is not configured,
\* the two webViewLink values (None from the {"error": ...} dict), or
\* {'error': str(e)} from the except clause
drive_links_silent(enabled, res) ==
    IF ~enabled THEN "none"
    ELSE CASE res = "links"       -> "links"
           [] res = "raised"      -> "none"
           [] res = "unavailable" -> "nolinks"

drive_links_of(enabled, res) ==
    IF ~enabled THEN "none"
    ELSE CASE res = "links"       -> "links"
           [] res = "raised"      -> "error"
           [] res = "unavailable" -> "nolinks"

\* drive_links.get('pdf', '')
pdf_link(links) ==
    CASE links = "links"   -> "link"
      [] links = "nolinks" -> "None"
      [] OTHER             -> ""

\* lines 278-299: the optional Drive upload and Sheets row, each inside its
\* own try/except; deps.drive is "DRIVE_PARENT and upload_file", deps.sheets
\* is "SHEETS_ID and append_log"
Uploads(r) ==
    /\ req[r].pc = "upload"
    /\ \E dout \in DriveOutcomes, sout \in SheetOutcomes :
          LET links == drive_links_of(deps.drive, dout)
          IN  /\ req' = [req EXCEPT
                            ![r].pc = "insert",
                            ![r].drive_links = links,
                            ![r].drive_out = IF deps.drive THEN dout ELSE "skipped",
                            ![r].sheet_out = IF deps.sheets THEN sout ELSE "skipped"]
              /\ sheetRows' =
                    IF deps.sheets /\ sout = "ok"
                    THEN Append(sheetRows,
                                [url |-> req[r].url,
                                 overall |-> req[r].overall,
                                 label |-> req[r].label,
                                 pdf |-> pdf_link(links)])
                    ELSE sheetRows
    /\ UNCHANGED <<deps, clock, files, HISTORY>>
    /\ UNCHANGED <<scoreVars, palVars, pdfVars>>

\* HISTORY.insert(0, entry) of line 314 (the first definition puts the
\* entry after the existing ones, as HISTORY.append(entry) would)
history_append(H, entry) == H \o <<entry>>

history_insert(H, entry) == <<entry>> \o H

\* lines 301-319: the history entry, HISTORY.insert(0, entry), "OK".  The
\* palette is named by the image it was extracted from; the insights, taken
\* from the html alone, are left out of the entry.
Insert(r) ==
    /\ req[r].pc = "insert"
    /\ HISTORY' = history_insert(HISTORY,
            [url |-> req[r].url, when |-> req[r].timestamp,
             overall |-> req[r].overall, label |-> req[r].label,
             breakdown |-> req[r].breakdown, tips |-> req[r].tips_list,
             palette |-> req[r].pil,
             files |-> [screenshot |-> shot_path(req[r].timestamp),
                        pdf |-> pdf_path(req[r].timestamp)],
             drive |-> req[r].drive_links,
             run |-> r  \* not in the entry: names the request it came from
            ])
    /\ req' = [req EXCEPT ![r].pc = "done", ![r].result = "OK"]
    /\ UNCHANGED <<deps, clock, files, sheetRows>>
    /\ UNCHANGED <<scoreVars, palVars, pdfVars>>

AppNext ==
    \/ Tick
    \/ \E r \in Requests :
          \/ Begin(r) \/ Capture(r) \/ Score(r)
          \/ BuildPdf(r) \/ Uploads(r) \/ Insert(r)

AnalyzeInit == ScoreIdle /\ PalIdle /\ PdfIdle /\ AppInit

SpecAnalyze == AnalyzeInit /\ [][AppNext]_vars

-----------------------------------------------------------------------------
(* Inputs of the scoring specification                                     *)

\* sub-scores tried for each category, in half points: the ends of the
\* range, 40.5, and both sides of each recommendation threshold
ScoreInputs ==
    [c \in Cats |->
        CASE c = "Typography"         -> {0, 81, 159, 160, 200}
          [] c = "Color & Contrast"   -> {0, 158, 160, 200}
          [] c = "Layout & Structure" -> {0, 158, 160, 200}
          [] c = "Responsive"         -> {0, 179, 180, 200}
          [] c = "Accessibility"      -> {0, 168, 170, 200}]

Breakdowns ==
    {MkBreakdown(t, c, l, r, a) :
        t \in ScoreInputs["Typography"],
        c \in ScoreInputs["Color & Contrast"],
        l \in ScoreInputs["Layout & Structure"],
        r \in ScoreInputs["Responsive"],
        a \in ScoreInputs["Accessibility"]}

OnlyTypography == [c \in Cats |-> IF c = "Typography" THEN 100 ELSE 0]

\* a mapping that does not sum to 1.0
HeavyWeights == [c \in Cats |-> 30]

WeightInputs == {AppWeights, ConfigWeights, OnlyTypography, HeavyWeights}

ValidWeights(w) ==
    /\ \A c \in Cats : w[c] >= 0
    /\ SumOver(w, BreakdownKeys) = 100

ScoreInit ==
    /\ weights \in WeightInputs
    /\ breakdown \in Breakdowns
    /\ overall = 0
    /\ label = ""
    /\ tips = <<>>
    /\ spc = "input"
    /\ pil_image = NoPil
    /\ html = BareHtml
    /\ prev = NoPrev
    /\ PalIdle
    /\ PdfIdle
    /\ AppIdle

\* overall, breakdown, meta = make_scores(pil, html, WEIGHTS)
MakeScores ==
    /\ spc = "input"
    /\ overall' \in OverallOutcomes(breakdown, weights)
    /\ spc' = "scored"
    /\ UNCHANGED <<weights, breakdown, label, tips, pil_image, html, prev>>
    /\ UNCHANGED <<palVars, pdfVars, appVars>>

\* label = label_for(int(overall))
LabelFor ==
    /\ spc = "scored"
    /\ label' = label_for(overall)
    /\ spc' = "labelled"
    /\ UNCHANGED <<weights, breakdown, overall, tips, pil_image, html, prev>>
    /\ UNCHANGED <<palVars, pdfVars, appVars>>

\* tips_list = recommendations(breakdown, meta)
Recommendations ==
    /\ spc = "labelled"
    /\ tips' = recommendations(breakdown)
    /\ spc' = "advised"
    /\ UNCHANGED <<weights, breakdown, overall, label, pil_image, html, prev>>
    /\ UNCHANGED <<palVars, pdfVars, appVars>>

ScoreNext == MakeScores \/ LabelFor \/ Recommendations

SpecScore == ScoreInit /\ [][ScoreNext]_vars

-----------------------------------------------------------------------------
(* make_scores on an image and a page                                      *)

\* html with every counted feature present in quantity
RichHtml ==
    [h1 |-> 1, h2 |-> 1, hOther |-> 7, sizes |-> 40, grids |-> 15,
     sections |-> 10, viewportMeta |-> TRUE, viewportText |-> FALSE,
     mq |-> 70, imgs |-> 3, with_alt |-> 3, ariaLabel |-> 10, role |-> 10,
     both |-> 5, otherAria |-> 4, labels |-> 5]

\* the counts analyze_typography takes, around its caps (7 headings, 40
\* size hints)
TypographyVariants(base) ==
    {[base EXCEPT !.h1 = a, !.h2 = b, !.hOther = c, !.sizes = n] :
        a \in 0..1, b \in 0..1, c \in {0, 1, 7}, n \in {0, 1, 2, 39, 40, 41}}

\* the counts analyze_layout takes, around its caps (15 hints, 10 sections)
LayoutVariants(base) ==
    {[base EXCEPT !.grids = g, !.sections = n] :
        g \in {0, 1, 15, 16}, n \in {0, 1, 10, 11}}

\* what analyze_responsive looks at, around its cap (70 hints)
ResponsiveVariants(base) ==
    {[base EXCEPT !.viewportMeta = m, !.viewportText = t, !.mq = n] :
        m \in BOOLEAN, t \in BOOLEAN, n \in {0, 1, 69, 70, 71}}

\* images in total and with alt text
AltInputs == {<<0, 0>>, <<1, 0>>, <<1, 1>>, <<3, 1>>, <<7, 6>>, <<7, 7>>}

\* the counts analyze_accessibility takes
AccessibilityVariants(base) ==
    {[base EXCEPT !.imgs = i[1], !.with_alt = i[2], !.ariaLabel = a,
                  !.role = r, !.both = b, !.otherAria = o, !.labels = l] :
        i \in AltInputs, a \in 0..1, r \in 0..1, b \in 0..1,
        o \in {0, 2}, l \in {0, 1, 30}}

HtmlVariants(base) ==
    TypographyVariants(base) \cup LayoutVariants(base)
    \cup ResponsiveVariants(base) \cup AccessibilityVariants(base)

HtmlInputs == HtmlVariants(BareHtml) \cup HtmlVariants(RichHtml)

\* a screenshot of one colour: no spread of luminance, one hue bin
UniformImage == [w |-> 2880, h |-> 1800, contrast |-> 0, bins |-> 1]
MidImage     == [w |-> 2880, h |-> 1800, contrast |-> 200, bins |-> 3]
VividImage   == [w |-> 2880, h |-> 1800, contrast |-> 400, bins |-> 6]
\* an image more than 256 times as wide as it is high
WideImage    == [w |-> 600, h |-> 2, contrast |-> 200, bins |-> 3]

ImageInputs == {UniformImage, MidImage, VividImage, WideImage}

\* a weights mapping without the key 'Accessibility'
LackingKey == [c \in Cats \ {"Accessibility"} |-> AppWeights[c]]

AnalyzerWeights == {AppWeights, ConfigWeights, LackingKey}

\* nothing returned yet
UnsetBreakdown == [c \in Cats |-> -1]

AnalyzersInit ==
    /\ weights \in AnalyzerWeights
    /\ pil_image \in ImageInputs
    /\ html \in HtmlInputs
    /\ breakdown = UnsetBreakdown
    /\ overall = -1
    /\ label = ""
    /\ tips = <<>>
    /\ spc = "call"
    /\ prev = NoPrev
    /\ PalIdle
    /\ PdfIdle
    /\ AppIdle

\* overall, breakdown, meta = make_scores(pil_image, html, weights), or the
\* exception it raises
CallMakeScores ==
    /\ spc = "call"
    /\ \E res \in make_scores(pil_image, html, weights) :
          IF res.raised
          THEN /\ spc' = "raised"
               /\ UNCHANGED <<overall, breakdown>>
          ELSE /\ spc' = "scored"
               /\ overall' = res.overall
               /\ breakdown' = res.breakdown
    /\ UNCHANGED <<weights, label, tips, pil_image, html, prev>>
    /\ UNCHANGED <<palVars, pdfVars, appVars>>

\* the page gets an h1 element, everything else staying as it is, and is
\* scored again
AddH1 ==
    /\ spc = "advised"
    /\ ~prev.set
    /\ html.h1 = 0
    /\ prev' = [set |-> TRUE, html |-> html,
                typography |-> breakdown["Typography"]]
    /\ html' = [html EXCEPT !.h1 = 1]
    /\ breakdown' = UnsetBreakdown
    /\ overall' = -1
    /\ label' = ""
    /\ tips' = <<>>
    /\ spc' = "call"
    /\ UNCHANGED <<weights, pil_image>>
    /\ UNCHANGED <<palVars, pdfVars, appVars>>

AnalyzersNext == CallMakeScores \/ LabelFor \/ Recommendations \/ AddH1

SpecAnalyzers == AnalyzersInit /\ [][AnalyzersNext]_vars

-----------------------------------------------------------------------------
(* extract_palette                                                         *)

\* the number spelled by the six hex digits of "#{:02X}{:02X}{:02X}"
_rgb_to_hex(t) == t[1] * 65536 + t[2] * 256 + t[3]

\* index of the entry of the Counter with the highest count, the earliest
\* inserted among equals
TopIndex(cnt) ==
    CHOOSE i \in 1..Len(cnt) :
        \A j \in 1..Len(cnt) :
            \/ cnt[j][2] < cnt[i][2]
            \/ cnt[j][2] = cnt[i][2] /\ i <= j

Without(seq, i) == SubSeq(seq, 1, i - 1) \o SubSeq(seq, i + 1, Len(seq))

\* cnt.most_common(k)
RECURSIVE most_common(_, _)
most_common(cnt, k) ==
    IF k = 0 \/ cnt = <<>> THEN <<>>
    ELSE LET i == TopIndex(cnt)
         IN  <<cnt[i]>> \o most_common(Without(cnt, i), k - 1)

\* total = len(pixels)
Total(cnt) == SumOver([i \in 1..Len(cnt) |-> cnt[i][2]], [i \in 1..Len(cnt) |-> i])

\* round(pct, 2), in hundredths of a percent
Pct(n, total) == (n * 20000 + total) \div (2 * total)

\* lines 99-103: the entries of most_common(max_colors) with
\* pct >= min_percent; min_percent is given in tenths of a percent
RECURSIVE dominant_of(_, _, _)
dominant_of(common, total, min_percent) ==
    IF common = <<>> THEN <<>>
    ELSE LET rgb  == Head(common)[1]
             n    == Head(common)[2]
             rest == dominant_of(Tail(common), total, min_percent)
         IN  IF n * 1000 >= min_percent * total
             THEN <<[hex |-> _rgb_to_hex(rgb), pct |-> Pct(n, total),
                     rgb |-> rgb]>> \o rest
             ELSE rest

\* the entries _top_saturated and _edge_accent_colors build
Accent(rgb) == [hex |-> _rgb_to_hex(rgb), pct |-> 0, rgb |-> rgb]

Accents(rgbs) == [i \in 1..Len(rgbs) |-> Accent(rgbs[i])]

\* lines 111-116: unique by hex, keeping the order
RECURSIVE merge_all(_, _, _)
merge_all(items, seen, acc) ==
    IF items = <<>> THEN acc
    ELSE merge_all(Tail(items), seen \cup {Head(items).hex},
                   Append(acc, Head(items)))

RECURSIVE merge(_, _, _)
merge(items, seen, acc) ==
    IF items = <<>> THEN acc
    ELSE IF Head(items).hex \in seen
    THEN merge(Tail(items), seen, acc)
    ELSE merge(Tail(items), seen \cup {Head(items).hex},
               Append(acc, Head(items)))

\* lines 118-120: rgb, n = next(iter(cnt.items())): the entry inserted
\* first, that is the colour of the first pixel
fallback(cnt) ==
    <<[hex |-> _rgb_to_hex(cnt[1][1]), pct |-> 10000, rgb |-> cnt[1][1]]>>

\* out[:28]
first_28(items) == SubSeq(items, 1, Smaller(28, Len(items)))

\* colours of the images tried
Colour(kind, i) ==
    CASE kind = "gray" -> <<10 * i, 10 * i, 10 * i>>
      [] kind = "red"  -> <<255, 8 * i, 0>>
      [] kind = "blue" -> <<0, 8 * i, 255>>

Colours(kind, a, n) == [i \in 1..n |-> Colour(kind, a + i - 1)]

\* m quantized colours of equal share
Even(kind, m) == [i \in 1..m |-> <<Colour(kind, i), 10>>]

\* three grays, the first pixel's colour not the most frequent
Skewed ==
    << <<Colour("gray", 1), 30>>, <<Colour("gray", 2), 40>>,
       <<Colour("gray", 3), 30>> >>

\* two grays, 10% and 90%
NinetyTen == << <<Colour("gray", 1), 10>>, <<Colour("gray", 2), 90>> >>

CntInputs ==
    {Even(kind, m) : kind \in {"gray", "red"}, m \in {1, 2, 16}}
    \cup {Skewed, NinetyTen}

\* results of _top_saturated(base, k=8, ...)
SatInputs == {<<>>} \cup {Colours("red", a, n) : a \in {1, 5}, n \in {1, 8}}

\* results of _edge_accent_colors(base, k=10, ...)
EdgeInputs ==
    {<<>>} \cup {Colours("red", a, 10) : a \in {1, 9}}
    \cup {Colours("blue", 1, n) : n \in {3, 10}}

\* a gray has saturation 0
IsGray(rgb) == rgb[1] = rgb[2] /\ rgb[2] = rgb[3]

\* the calls tried: the quantization leaves at most max_colors colours, and
\* an image of saturated colours has saturated pixels
PalInputs ==
    {a \in [cnt : CntInputs, sat : SatInputs, edge : EdgeInputs,
            max_colors : {3, 16}, min_percent : {5, 500, 1001}] :
        /\ Len(a.cnt) <= a.max_colors
        /\ (a.sat = <<>> => \A i \in 1..Len(a.cnt) : IsGray(a.cnt[i][1]))}

PalInit ==
    /\ palArgs \in PalInputs
    /\ dominant = <<>>
    /\ out = <<>>
    /\ ppc = "start"
    /\ ScoreIdle
    /\ PdfIdle
    /\ AppIdle

\* lines 92-103: quantize, count, keep the colours with pct >= min_percent
PalDominant ==
    /\ ppc = "start"
    /\ dominant' = dominant_of(most_common(palArgs.cnt, palArgs.max_colors),
                               Total(palArgs.cnt), palArgs.min_percent)
    /\ ppc' = "passes"
    /\ UNCHANGED <<palArgs, out>>
    /\ UNCHANGED <<scoreVars, pdfVars, appVars>>

\* lines 105-116: the saturated and edge passes, and the merge
PalMerge ==
    /\ ppc = "passes"
    /\ out' = merge(dominant \o Accents(palArgs.sat) \o Accents(palArgs.edge),
                    {}, <<>>)
    /\ ppc' = "merged"
    /\ UNCHANGED <<palArgs, dominant>>
    /\ UNCHANGED <<scoreVars, pdfVars, appVars>>

\* lines 118-121: the fallback entry and the cut to 28 entries
PalReturn ==
    /\ ppc = "merged"
    /\ out' = first_28(IF out = <<>> /\ palArgs.cnt # <<>>
                  THEN fallback(palArgs.cnt) ELSE out)
    /\ ppc' = "done"
    /\ UNCHANGED <<palArgs, dominant>>
    /\ UNCHANGED <<scoreVars, pdfVars, appVars>>

PalNext == PalDominant \/ PalMerge \/ PalReturn

SpecPalette == PalInit /\ [][PalNext]_vars

-----------------------------------------------------------------------------
(* build_pdf                                                               *)

NoShot == [kind |-> "none"]
Corrupt == [kind |-> "corrupt"]
Img(w, h) == [kind |-> "image", w |-> w, h |-> h]

\* c.showPage(); _draw_header(c, ..., when)
NewPage(hs, when) == Append(hs, when)

\* build_pdf lines 271-286: header of page 1, the two meta lines, and the
\* test "screenshot_path and os.path.isfile(screenshot_path)"
BuildPdfStart ==
    /\ rpc = "start"
    /\ page' = 1
    /\ headers' = <<"stamped">>
    /\ rpc' = IF shot.kind = "none" THEN "placeholder" ELSE "open"
    /\ UNCHANGED <<shot, tipCap, y_px, slices, placeholder, scorePage,
                   recsPage, y, tipNo, lastTip, saved>>
    /\ UNCHANGED <<scoreVars, palVars, appVars>>

\* _draw_screenshot_sliced lines 92-112: open the image; if it fits in the
\* room left on page 1 draw it whole, else set up the slicing loop.  Any
\* exception is caught by build_pdf, which leaves drew_any_image False.
ShotOpen ==
    /\ rpc = "open"
    /\ LET room == first_page_room(TRUE, top_used)
       IN  IF shot.kind = "corrupt"
           THEN /\ rpc' = "placeholder"
                /\ UNCHANGED slices
           ELSE IF FitsFirstPage(shot, room)
           THEN IF ResizeRaises(shot, shot.h)
                THEN /\ rpc' = "placeholder"
                     /\ UNCHANGED slices
                ELSE /\ slices' = <<[page |-> 1, y_px |-> 0, h_px |-> shot.h,
                                     top |-> y_cursor(top_used)]>>
                     /\ rpc' = "scores"
           ELSE /\ rpc' = "slicing"
                /\ UNCHANGED slices
    /\ y_px' = 0
    /\ UNCHANGED <<shot, tipCap, page, headers, placeholder, scorePage,
                   recsPage, y, tipNo, lastTip, saved>>
    /\ UNCHANGED <<scoreVars, palVars, appVars>>

\* one iteration of "while y_px < img_h" (lines 116-130)
ShotSlice ==
    /\ rpc = "slicing"
    /\ y_px < shot.h
    /\ LET room  == first_page_room(TRUE, top_used)
           h_px  == Min(slice_h_px(shot, TRUE, room), shot.h - y_px)
           first == slices = <<>>
           pg    == IF first THEN page ELSE page + 1
           top   == IF first THEN y_cursor(top_used) ELSE PAGE_H - MARGIN
       IN  /\ page' = pg
           /\ headers' = IF first THEN headers ELSE NewPage(headers, "plain")
           /\ IF ResizeRaises(shot, h_px)
              THEN /\ rpc' = "placeholder"
                   /\ UNCHANGED <<slices, y_px>>
              ELSE /\ slices' = Append(slices, [page |-> pg, y_px |-> y_px,
                                                h_px |-> h_px, top |-> top])
                   /\ y_px' = y_px + h_px
                   /\ rpc' = IF y_px + h_px < shot.h THEN "slicing" ELSE "scores"
    /\ UNCHANGED <<shot, tipCap, placeholder, scorePage, recsPage, y, tipNo,
                   lastTip, saved>>
    /\ UNCHANGED <<scoreVars, palVars, appVars>>

\* lines 292-295: "Screenshot could not be rendered." at (MARGIN, y) of the
\* page the canvas is on
Placeholder ==
    /\ rpc = "placeholder"
    /\ placeholder' = page
    /\ rpc' = "scores"
    /\ UNCHANGED <<shot, tipCap, page, headers, y_px, slices, scorePage,
                   recsPage, y, tipNo, lastTip, saved>>
    /\ UNCHANGED <<scoreVars, palVars, appVars>>

\* lines 297-320: new page with the score table and the line chart
ScoresPage ==
    /\ rpc = "scores"
    /\ page' = page + 1
    /\ headers' = NewPage(headers, "stamped")
    /\ scorePage' = page + 1
    /\ rpc' = "recs"
    /\ UNCHANGED <<shot, tipCap, y_px, slices, placeholder, recsPage, y,
                   tipNo, lastTip, saved>>
    /\ UNCHANGED <<scoreVars, palVars, appVars>>

\* lines 322-326 and _recommendations lines 227-240: new page, section
\* title, and the "No recommendations" line for an empty list
RecsStart ==
    /\ rpc = "recs"
    /\ page' = page + 1
    /\ headers' = NewPage(headers, "stamped")
    /\ recsPage' = page + 1
    /\ y' = y_start - 18 * pt
    /\ \E empty \in BOOLEAN :
          /\ ~empty => tipCap > 0
          /\ rpc' = IF empty THEN "save" ELSE "tips"
    /\ UNCHANGED <<shot, tipCap, y_px, slices, placeholder, scorePage,
                   tipNo, lastTip, saved>>
    /\ UNCHANGED <<scoreVars, palVars, appVars>>

\* the texts tried as tips, as the widths of their words: an empty text,
\* one short word, texts wrapping to 2 and 3 lines, one over-wide word
TipInputs ==
    { <<>>, <<2000>>, <<30000, 30000>>, <<30000, 30000, 30000>>,
      <<2000, 30000, 30000>>, <<60000>> }

\* the test made before a tip is drawn: y - 14 < MARGIN
NeedsNewPage(yy, words) == yy - 14 * pt < MARGIN

\* one iteration of "for tip in tips" (lines 241-255); lines[0] raises
\* IndexError when _wrap_lines returns no line
RecsTip ==
    /\ rpc = "tips"
    /\ \E words \in TipInputs, more \in BOOLEAN :
          LET fresh == NeedsNewPage(y, words)
              y0    == IF fresh THEN y_start ELSE y
              pg    == IF fresh THEN page + 1 ELSE page
              lines == _wrap_lines(words, usable_w - 14 * pt)
              low   == y0 - 10 * pt - 12 * pt * (Len(lines) - 1)
          IN  /\ page' = pg
              /\ headers' = IF fresh THEN NewPage(headers, "plain") ELSE headers
              /\ IF lines = <<>>
                 THEN /\ rpc' = "error"
                      /\ y' = y0
                      /\ UNCHANGED <<tipNo, lastTip>>
                 ELSE /\ lastTip' = [page |-> pg, words |-> words,
                                     lines |-> lines, first |-> y0 - 10 * pt,
                                     low |-> low]
                      /\ y' = low - 8 * pt
                      /\ tipNo' = tipNo + 1
                      /\ rpc' = IF more /\ tipNo + 1 < tipCap
                                THEN "tips" ELSE "save"
    /\ UNCHANGED <<shot, tipCap, y_px, slices, placeholder, scorePage,
                   recsPage, saved>>
    /\ UNCHANGED <<scoreVars, palVars, appVars>>

\* line 328: c.save()
Save ==
    /\ rpc = "save"
    /\ saved' = TRUE
    /\ rpc' = "done"
    /\ UNCHANGED <<shot, tipCap, page, headers, y_px, slices, placeholder,
                   scorePage, recsPage, y, tipNo, lastTip>>
    /\ UNCHANGED <<scoreVars, palVars, appVars>>

PdfNext ==
    \/ BuildPdfStart \/ ShotOpen \/ ShotSlice \/ Placeholder
    \/ ScoresPage \/ RecsStart \/ RecsTip \/ Save

\* largest multiple of the 182 x 807 image (scaled height 3 x usable_h)
MaxK == 3
\* images of a few large pixels: every width up to MaxW with every height
\* up to MaxH; 2880 is the width capture_screenshot produces (1440 x 2)
MaxW == 3
MaxH == 8
\* longest tips list rendered
MaxTips == 20
\* longest tips list rendered together with the full set of screenshots
FewTips == 2

TripleHeight == {Img(182 * k, 807 * k) : k \in 1..MaxK}

ShotInputs ==
    {NoShot, Corrupt}
    \cup TripleHeight
    \cup {Img(w, h) : w \in 1..MaxW, h \in 1..MaxH}
    \cup {Img(182, 100), Img(182, 242), Img(182, 243), Img(2880, 3),
          Img(2880, 7667), Img(2880, 8000), Img(910, 1211)}

PdfStartWith(shots, cap) ==
    /\ shot \in shots
    /\ tipCap = cap
    /\ rpc = "start"
    /\ page = 0
    /\ headers = <<>>
    /\ y_px = 0
    /\ slices = <<>>
    /\ placeholder = 0
    /\ scorePage = 0
    /\ recsPage = 0
    /\ y = 0
    /\ tipNo = 0
    /\ lastTip = NoTip
    /\ saved = FALSE

\* build_pdf over every screenshot, with short tips lists
PdfInit == ScoreIdle /\ PalIdle /\ AppIdle /\ PdfStartWith(ShotInputs, FewTips)

SpecPdf == PdfInit /\ [][PdfNext]_vars

\* build_pdf over long tips lists, with two screenshots
RecsInit ==
    ScoreIdle /\ PalIdle /\ AppIdle /\ PdfStartWith({NoShot, Img(182, 807)}, MaxTips)

SpecRecs == RecsInit /\ [][PdfNext]_vars

-----------------------------------------------------------------------------
(* Properties of the scoring specification                                 *)

Scored == spc \in {"scored", "labelled", "advised"}

\* C1: for weights that are non-negative and sum to 1.0 and sub-scores in
\* [0,100], the overall score returned by make_scores is an integer in
\* [0,100].
C1_OverallInRange ==
    (/\ Scored
     /\ ValidWeights(weights)
     /\ \A c \in Cats : breakdown[c] \in 0..Pt2(100))
    => overall \in 0..100

C1_Witness ==
    /\ spc = "scored"
    /\ weights = AppWeights
    /\ \A c \in Cats : breakdown[c] = Pt2(100)
    /\ overall = 100

\* round() of Python 3: to nearest, ties to the even neighbour
PyRound(n, d) ==
    LET q == n \div d
        r == n % d
    IN  IF 2 * r < d THEN q
        ELSE IF 2 * r > d THEN q + 1
        ELSE IF q % 2 = 0 THEN q ELSE q + 1

\* C2 as stated: overall is the weighted sum rounded to the nearest
\* integer.  (A float sum that falls just below a whole number is not held
\* against the statement.)
C2_OverallIsRounded ==
    Scored =>
        LET n == WeightedSum(breakdown, weights)
        IN  \/ overall = PyRound(n, 200)
            \/ n % 200 = 0 /\ overall = n \div 200 - 1

\* C2 amended: overall is the weighted sum truncated toward zero, int(),
\* not rounded: it never exceeds the sum, is less than one below it, and
\* is the floor of the sum whenever the sum is not a whole number.
C2_OverallIsTruncated ==
    Scored =>
        LET n == WeightedSum(breakdown, weights)
        IN  /\ overall * 200 <= n
            /\ n <= (overall + 1) * 200
            /\ (n % 200 # 0 => overall = n \div 200)
            /\ (n = 0 => overall = 0)

\* a weighted sum whose fractional part is at least one half
C2_Witness ==
    /\ spc = "scored"
    /\ weights = AppWeights
    /\ WeightedSum(breakdown, weights) % 200 >= 100
    /\ overall = WeightedSum(breakdown, weights) \div 200

TierOf(lab) == CHOOSE i \in 1..Len(LABELS) : LABELS[i][2] = lab

\* C3: label_for maps every integer score in [0,100] to the label of the
\* first row of the table 90, 80, 70, 60, 0 whose bound is <= the score,
\* and a higher score never gets a lower tier.
C3_LabelFirstRow ==
    /\ \A s \in 0..100 :
          \E i \in 1..Len(LABELS) :
              /\ label_for(s) = LABELS[i][2]
              /\ LABELS[i][1] <= s
              /\ \A j \in 1..(i - 1) : LABELS[j][1] > s
    /\ \A s \in 0..99 : TierOf(label_for(s + 1)) <= TierOf(label_for(s))
    /\ spc \in {"labelled", "advised"} =>
          label = (IF overall >= 90 THEN "Excellent"
                   ELSE IF overall >= 80 THEN "Great"
                   ELSE IF overall >= 70 THEN "Good"
                   ELSE IF overall >= 60 THEN "Fair"
                   ELSE "Needs work")

C3_Witness ==
    /\ spc = "labelled"
    /\ overall = 80
    /\ label = "Great"

TipThreshold(c) ==
    CASE c = "Typography"         -> Pt2(80)
      [] c = "Layout & Structure" -> Pt2(80)
      [] c = "Color & Contrast"   -> Pt2(80)
      [] c = "Responsive"         -> Pt2(90)
      [] c = "Accessibility"      -> Pt2(85)

TipPriority ==
    <<TipTypography, TipLayout, TipColor, TipResponsive, TipAccessibility>>

TipCategory ==
    <<"Typography", "Layout & Structure", "Color & Contrast",
      "Responsive", "Accessibility">>

BelowThreshold(b) == {i \in 1..5 : b[TipCategory[i]] < TipThreshold(TipCategory[i])}

\* C5: recommendations returns exactly one tip for each category below its
\* threshold and none for a category at or above it, in the order
\* Typography, Layout, Color, Responsive, Accessibility; with no category
\* below its threshold it returns the single positive tip.
C5_TipsMatchThresholds ==
    spc = "advised" =>
        LET below == BelowThreshold(breakdown)
        IN  IF below = {}
            THEN tips = <<TipGreat>>
            ELSE /\ Len(tips) = Cardinality(below)
                 /\ \A i \in 1..5 :
                       (i \in below) <=>
                       (\E n \in 1..Len(tips) : tips[n] = TipPriority[i])
                 /\ \A n \in 1..Len(tips) :
                       \E i \in below : tips[n] = TipPriority[i]
                 /\ \A n, m \in 1..Len(tips) :
                       n < m =>
                       \E i, j \in 1..5 :
                           i < j /\ tips[n] = TipPriority[i]
                                 /\ tips[m] = TipPriority[j]

\* Typography just below 80, Responsive exactly 90, Accessibility below 85
C5_Witness ==
    /\ spc = "advised"
    /\ breakdown["Typography"] = 159
    /\ breakdown["Layout & Structure"] = 160
    /\ breakdown["Color & Contrast"] = 160
    /\ breakdown["Responsive"] = 180
    /\ breakdown["Accessibility"] = 168
    /\ tips = <<TipTypography, TipAccessibility>>

-----------------------------------------------------------------------------
(* Properties of the report specifications                                 *)

\* the scaled screenshot is 3 times as tall as one printable page height
IsTriple(im) ==
    /\ im.kind = "image"
    /\ im.h * usable_w = 3 * usable_h * im.w

ShotPages == {slices[i].page : i \in DOMAIN slices}

ContinuationsHaveHeader ==
    \A i \in DOMAIN slices :
        slices[i].page > 1 =>
            /\ slices[i].page <= Len(headers)
            /\ headers[slices[i].page] = "plain"

\* C6 as stated: a screenshot 3 times as tall as one printable page height
\* is drawn on exactly 3 pages before the score page, each continuation
\* page with the repeated header.
C6_ThreePages ==
    (IsTriple(shot) /\ scorePage # 0) =>
        /\ ShotPages = 1..3
        /\ scorePage = 4
        /\ ContinuationsHaveHeader

\* C6 amended: such a screenshot is drawn on exactly 4 pages before the
\* score page (page 1 holds less than a full page height), each of the
\* three continuation pages with the repeated header.
C6_FourPages ==
    /\ IsTriple(shot) => ContinuationsHaveHeader
    /\ (IsTriple(shot) /\ scorePage # 0) =>
          /\ Len(slices) = 4
          /\ ShotPages = 1..4
          /\ \A i \in 1..4 : slices[i].page = i
          /\ scorePage = 5
          /\ placeholder = 0

C6_Witness ==
    /\ IsTriple(shot)
    /\ scorePage = 5
    /\ Len(slices) = 4
    /\ headers = <<"stamped", "plain", "plain", "plain", "stamped">>

\* slice i is not the last piece of the image
NotLastSlice(i) == slices[i].y_px + slices[i].h_px < shot.h

\* C7 as stated: the first slice has the height of the room left on page 1
\* (to within one pixel row); every later slice starts a new page and,
\* unless it is the last, is within one pixel row of the full usable page
\* height.
C7_LaterSlicesFullHeight ==
    (shot.kind = "image" /\ Len(slices) > 1) =>
        /\ slices[1].h_px * usable_w <= first_page_room(TRUE, top_used) * shot.w
        /\ (slices[1].h_px + 1) * usable_w > first_page_room(TRUE, top_used) * shot.w
        /\ \A i \in 2..Len(slices) :
              /\ slices[i].page = slices[i - 1].page + 1
              /\ NotLastSlice(i) =>
                    (slices[i].h_px + 1) * usable_w > usable_h * shot.w

\* C8 as stated: no line of a tip is drawn below the bottom margin.
C8_NoLineBelowMargin ==
    lastTip.page # 0 => lastTip.low >= MARGIN

\* C9 as stated: whatever goes wrong with the screenshot, the placeholder
\* is drawn on page 1, and a finished build_pdf has emitted the score page
\* and the recommendations page and saved the document.
C9_PlaceholderOnPageOne ==
    /\ placeholder # 0 => placeholder = 1
    /\ (placeholder # 0 /\ rpc = "done") =>
          /\ saved
          /\ scorePage # 0
          /\ recsPage # 0

-----------------------------------------------------------------------------
(* Properties of the analyze specification                                 *)

\* breakdowns on and one half point below each recommendation threshold
CornerBreakdowns ==
    {MkBreakdown(t, c, l, r, a) :
        t \in {TipThreshold("Typography") - 1, TipThreshold("Typography")},
        c \in {TipThreshold("Color & Contrast") - 1, TipThreshold("Color & Contrast")},
        l \in {TipThreshold("Layout & Structure") - 1, TipThreshold("Layout & Structure")},
        r \in {TipThreshold("Responsive") - 1, TipThreshold("Responsive")},
        a \in {TipThreshold("Accessibility") - 1, TipThreshold("Accessibility")}}

PdfFiles == {p \in Paths : files[p] # Absent /\ files[p].kind = "pdf"}

\* C4 as stated: recommendations returns at least one tip for every
\* breakdown, and the tips list handed to build_pdf and recorded in the
\* history entry is never empty.
C4_TipsNeverEmpty ==
    /\ \A b \in CornerBreakdowns : Len(recommendations(b)) >= 1
    /\ \A p \in PdfFiles : Len(files[p].tips) >= 1
    /\ \A i \in DOMAIN HISTORY : Len(HISTORY[i].tips) >= 1

\* C4 amended: recommendations returns at least one tip for every
\* breakdown, and the tips list handed to build_pdf and recorded in the
\* history entry is non-empty exactly when app.services.scoring could be
\* imported; without it analyze completes with an empty tips list.
C4_TipsEmptyOnlyWithoutScoring ==
    /\ \A b \in CornerBreakdowns : Len(recommendations(b)) >= 1
    /\ \A p \in PdfFiles : (Len(files[p].tips) >= 1) <=> deps.scoring
    /\ \A i \in DOMAIN HISTORY : (Len(HISTORY[i].tips) >= 1) <=> deps.scoring

\* two completed runs: one page clearing every threshold, one clearing none
C4_Witness ==
    /\ deps.scoring
    /\ \E i \in DOMAIN HISTORY : HISTORY[i].tips = <<TipGreat>>
    /\ \E i \in DOMAIN HISTORY : Len(HISTORY[i].tips) = 5

\* C10 as stated: the screenshot file, the PDF file and the history entry
\* of a run hold only that run's URL and results, no two runs share a
\* file, and HISTORY holds exactly one entry per successful run.
C10_RunsIndependent ==
    /\ \A i \in DOMAIN HISTORY :
          LET e == HISTORY[i]
          IN  /\ files[e.files.screenshot] = [kind |-> "screenshot", of |-> e.url]
              /\ files[e.files.pdf] =
                    [kind |-> "pdf", url |-> e.url, overall |-> e.overall,
                     label |-> e.label, tips |-> e.tips, shot |-> e.url]
              /\ e.palette = e.url
    /\ \A i, j \in DOMAIN HISTORY :
          i # j => HISTORY[i].files # HISTORY[j].files
    /\ \A r \in Requests :
          Cardinality({i \in DOMAIN HISTORY : HISTORY[i].run = r})
              = (IF req[r].result = "OK" THEN 1 ELSE 0)

\* the history entry of request r, if it has one
EntriesOf(r) == {i \in DOMAIN HISTORY : HISTORY[i].run = r}

\* the Drive or Sheets collaborator of request r was missing or failed
UpstreamTrouble(r) ==
    \/ ~deps.drive
    \/ ~deps.sheets
    \/ req[r].drive_out \in {"raised", "unavailable"}
    \/ req[r].sheet_out = "raised"

\* from the uploads on, a request goes on to insert its history entry and
\* to report success, whatever the collaborators did
UploadsNeverFail ==
    \A r \in Requests :
        /\ req[r].pc = "upload" =>
              /\ req'[r].pc \in {"upload", "insert"}
              /\ req'[r].result = req[r].result
        /\ req[r].pc = "insert" =>
              \/ req'[r] = req[r]
              \/ /\ req'[r].pc = "done"
                 /\ req'[r].result = "OK"
                 /\ Len(HISTORY') = Len(HISTORY) + 1
                 /\ HISTORY'[1].run = r
                 /\ HISTORY'[1].url = req[r].url

\* C11 as stated: a missing or failing Drive or Sheets collaborator never
\* fails the run (the run gets its history entry and reports success), and
\* the failure is recorded as an annotation on the run's result.
C11_UpstreamAnnotated ==
    /\ [][UploadsNeverFail]_vars
    /\ [](\A r \in Requests :
            (req[r].pc = "done" /\ req[r].result = "OK") =>
                /\ Cardinality(EntriesOf(r)) = 1
                /\ UpstreamTrouble(r) =>
                      \A i \in EntriesOf(r) : HISTORY[i].drive = "error")

\* C11 amended: such a collaborator never fails the run, and the run's
\* entry carries the annotation {'error': ...} exactly when an upload_file
\* call raised; a failing append_log, an unconfigured collaborator and an
\* upload_file that returns its own error dict leave no annotation.
C11_OnlyDriveExceptionAnnotated ==
    /\ [][UploadsNeverFail]_vars
    /\ [](\A r \in Requests :
            (req[r].pc = "done" /\ req[r].result = "OK") =>
                /\ Cardinality(EntriesOf(r)) = 1
                /\ \A i \in EntriesOf(r) :
                      /\ (HISTORY[i].drive = "error") <=> (req[r].drive_out = "raised")
                      /\ req[r].drive_out = "skipped" => HISTORY[i].drive = "none"
                      /\ req[r].drive_out = "unavailable" => HISTORY[i].drive = "nolinks")

\* a successful run whose upload raised and whose append_log raised
C11_Witness ==
    \E r \in Requests :
        /\ req[r].pc = "done"
        /\ req[r].result = "OK"
        /\ req[r].drive_out = "raised"
        /\ req[r].sheet_out = "raised"
        /\ \E i \in EntriesOf(r) : HISTORY[i].drive = "error"

-----------------------------------------------------------------------------
(* Properties of make_scores on an image and a page                        *)

\* C12 as stated: when one analyzer cannot produce a value (here
\* analyze_image_colors, on an image more than 256 times as wide as high),
\* make_scores still returns the other four sub-scores, a default in
\* [0,100] for the failed category, and an overall computed from them.
C12_OthersStillContribute ==
    (spc # "call" /\ ImageRaises(pil_image) /\ MissingKeys(weights) = {}) =>
        /\ spc # "raised"
        /\ breakdown["Typography"] = analyze_typography(html)
        /\ breakdown["Layout & Structure"] = analyze_layout(html)
        /\ breakdown["Responsive"] = analyze_responsive(html)
        /\ breakdown["Accessibility"] = analyze_accessibility(html)
        /\ breakdown["Color & Contrast"] \in 0..Pt2(100)
        /\ overall \in OverallOutcomes(breakdown, weights)

BaselinePage(h) ==
    /\ headings(h) = 0
    /\ h.sections = 0
    /\ h.grids = 0
    /\ ~h.viewportMeta
    /\ h.mq = 0
    /\ h.with_alt = 0
    /\ aria_or_role_attrs(h) = 0
    /\ h.labels = 0

BaselineRun ==
    /\ spc = "advised"
    /\ BaselinePage(html)
    /\ pil_image = UniformImage
    /\ weights \in {AppWeights, ConfigWeights}

AllFiveTips ==
    tips = <<TipTypography, TipLayout, TipColor, TipResponsive, TipAccessibility>>

\* C17 as stated: the baseline page with a uniform screenshot scores
\* Typography 40, Layout 40, Responsive 40, Accessibility 40, Color near 0,
\* overall below 60, the lowest label and all five tips.
C17_BaselineExact ==
    BaselineRun =>
        /\ breakdown["Typography"] = Pt2(40)
        /\ breakdown["Layout & Structure"] = Pt2(40)
        /\ breakdown["Responsive"] = Pt2(40)
        /\ breakdown["Accessibility"] = Pt2(40)
        /\ breakdown["Color & Contrast"] <= Pt2(5)
        /\ overall < 60
        /\ label = "Needs work"
        /\ AllFiveTips

\* C17 amended: on that page Layout and Accessibility are 40 and Color is
\* 3; Typography is 40 plus half a point per size hint, at most 60;
\* Responsive is 40, or 75 when the word 'viewport' occurs anywhere in the
\* html; overall is below 60, the label the lowest, the tips all five.
C17_Baseline ==
    BaselineRun =>
        /\ breakdown["Typography"] = Pt2(40) + Smaller(Pt2(20), html.sizes)
        /\ breakdown["Layout & Structure"] = Pt2(40)
        /\ breakdown["Responsive"] =
              (IF html.viewportText THEN Pt2(75) ELSE Pt2(40))
        /\ breakdown["Accessibility"] = Pt2(40)
        /\ breakdown["Color & Contrast"] = Pt2(3)
        /\ overall < 60
        /\ label = "Needs work"
        /\ AllFiveTips

C17_Witness ==
    /\ BaselineRun
    /\ html = BareHtml
    /\ weights = AppWeights
    /\ overall = 31
    /\ label = "Needs work"
    /\ AllFiveTips

\* C18: for html without an h1, adding one h1 element and changing nothing
\* else gives a Typography score greater than or equal to the one before.
C18_H1Monotonic ==
    (prev.set /\ Scored) =>
        /\ prev.html.h1 = 0
        /\ html = [prev.html EXCEPT !.h1 = 1]
        /\ breakdown["Typography"] >= prev.typography

\* the bare page: 40 before, 63 with the h1
C18_Witness ==
    /\ prev.set
    /\ spc = "scored"
    /\ prev.html = BareHtml
    /\ prev.typography = Pt2(40)
    /\ breakdown["Typography"] = Pt2(63)

\* C19 as stated: Accessibility = clamp(0,100, round(40 + min(30,
\* (imagesWithAlt/max(1,totalImages))*30) + min(30, ariaAttributeCount +
\* roleCount + labelCount))), every aria-* attribute and every role
\* attribute counted separately.
C19_AccessibilityFormula ==
    Scored =>
        LET n == IF html.imgs >= 1 THEN html.imgs ELSE 1
            k == Smaller(30, aria_or_role_attrs(html) + html.labels)
        IN  breakdown["Accessibility"] =
                Clamp(Pt2(PyRound(40 * n + Smaller(30 * n, html.with_alt * 30)
                                  + k * n, n)))

\* C19 amended: Accessibility = 40 + the share of images with alt text
\* times 30, truncated by int(), + min(30, E + labelCount), where E is the
\* number of elements carrying an aria-label or a role attribute, each
\* element counted once and other aria-* attributes not at all.
C19_AccessibilityTruncated ==
    Scored =>
        LET n == IF html.imgs >= 1 THEN html.imgs ELSE 1
            E == html.ariaLabel + html.role + html.both
        IN  /\ breakdown["Accessibility"] =
                  Pt2(40 + (30 * html.with_alt) \div n
                         + Smaller(30, E + html.labels))
            /\ breakdown["Accessibility"] \in Pt2(40)..Pt2(100)

\* 6 of 7 images with alt text (25.7), one element with aria-label and
\* role, two aria-hidden attributes: 66
C19_Witness ==
    /\ spc = "scored"
    /\ html.imgs = 7 /\ html.with_alt = 6
    /\ html.both = 1 /\ html.otherAria = 2
    /\ html.ariaLabel = 0 /\ html.role = 0 /\ html.labels = 0
    /\ breakdown["Accessibility"] = Pt2(66)

\* C13: a weights mapping lacking a required key makes make_scores raise
\* and return no overall, breakdown or meta; in analyze a make_scores that
\* raises leaves the run without a PDF file and without a history entry.
C13_MissingKeyFails ==
    /\ \A im \in ImageInputs, h \in {BareHtml, RichHtml} :
          \A res \in make_scores(im, h, LackingKey) :
              res.raised /\ DOMAIN res = {"raised", "error"}
    /\ \A r \in Requests :
          req[r].failed_at = "make_scores" =>
              /\ req[r].pc = "done"
              /\ req[r].result = "ERROR"
              /\ ~req[r].pdf_written
              /\ EntriesOf(r) = {}

\* one run ended by make_scores, the other run completed
C13_Witness ==
    \E r, q \in Requests :
        /\ req[r].failed_at = "make_scores"
        /\ req[r].pc = "done"
        /\ req[q].result = "OK"
        /\ Len(HISTORY) = 1

-----------------------------------------------------------------------------
(* Properties of the slicing loop                                          *)

\* the image did not fit on page 1, and the loop of lines 116-130 is over
SlicingOver ==
    /\ shot.kind = "image"
    /\ ~FitsFirstPage(shot, first_page_room(TRUE, top_used))
    /\ rpc \notin {"start", "open", "slicing"}

\* every iteration moves y_px down the image by at least one row
SliceAdvances ==
    rpc = "slicing" =>
        /\ y_px' <= shot.h
        /\ rpc' = "slicing" => y_px' > y_px

\* the slices drawn are the image, cut top to bottom
SlicesPartition ==
    /\ slices # <<>>
    /\ slices[1].y_px = 0
    /\ \A i \in 1..Len(slices) : slices[i].h_px >= 1
    /\ \A i \in 2..Len(slices) :
          slices[i].y_px = slices[i - 1].y_px + slices[i - 1].h_px
    /\ slices[Len(slices)].y_px + slices[Len(slices)].h_px = shot.h
    /\ SumOver([i \in 1..Len(slices) |-> slices[i].h_px],
               [i \in 1..Len(slices) |-> i]) = shot.h

\* one new page per slice after the first, and none besides
OnePagePerSlice ==
    /\ \A i \in 1..Len(slices) : slices[i].page = i
    /\ scorePage # 0 => scorePage = Len(slices) + 1

\* C20 as stated: the slicing loop terminates for every image height and
\* page room, and when it is over its slices partition the image (top to
\* bottom, at least one pixel row each, adjacent, heights summing to the
\* image height), with exactly one new page per slice after the first.
C20_SlicesPartitionImage ==
    /\ [][SliceAdvances]_vars
    /\ [](SlicingOver => SlicesPartition /\ OnePagePerSlice)

-----------------------------------------------------------------------------
(* Properties of extract_palette                                           *)

\* C15: the palette returned by extract_palette has at most 28 entries and
\* no hex value twice, whatever the three passes found and also when the
\* fallback entry is used.
C15_PaletteCappedUnique ==
    ppc = "done" =>
        /\ Len(out) <= 28
        /\ \A i, j \in 1..Len(out) : i # j => out[i].hex # out[j].hex
        /\ \A i \in 1..Len(out) : out[i].hex = _rgb_to_hex(out[i].rgb)

\* 16 dominant, 8 saturated and 10 edge colours, all different: 34 cut to 28
C15_Witness ==
    /\ ppc = "done"
    /\ Len(dominant) = 16
    /\ Len(palArgs.sat) = 8
    /\ palArgs.edge = Colours("blue", 1, 10)
    /\ Len(out) = 28

\* the counts of the most frequent colours
MostFrequent(cnt) ==
    {cnt[i][1] : i \in {k \in 1..Len(cnt) : \A j \in 1..Len(cnt) : cnt[j][2] <= cnt[k][2]}}

\* C16 as stated: when the merge of the three passes is empty, the result
\* is exactly one entry, the most frequent colour, with percent 100.
C16_FallbackMostFrequent ==
    (/\ ppc = "done"
     /\ dominant = <<>>
     /\ palArgs.sat = <<>>
     /\ palArgs.edge = <<>>) =>
        /\ Len(out) = 1
        /\ out[1].pct = 10000
        /\ out[1].rgb \in MostFrequent(palArgs.cnt)

-----------------------------------------------------------------------------
(* HISTORY is touched by successful requests only                          *)

\* the steps that end a request r without "OK": the two early returns and
\* the except clause
EndsWithoutOk(r) ==
    /\ req[r].pc # "done"
    /\ req'[r].pc = "done"
    /\ req'[r].result # "OK"

\* the step that ends a request r with "OK"
EndsWithOk(r) ==
    /\ req[r].pc # "done"
    /\ req'[r].pc = "done"
    /\ req'[r].result = "OK"

HistoryStep ==
    /\ \A r \in Requests : EndsWithoutOk(r) => HISTORY' = HISTORY
    /\ \A r \in Requests :
          EndsWithOk(r) =>
              /\ Len(HISTORY') = Len(HISTORY) + 1
              /\ HISTORY'[1].run = r
              /\ HISTORY'[1].url = req[r].url
              /\ Tail(HISTORY') = HISTORY
    /\ HISTORY' # HISTORY => \E r \in Requests : EndsWithOk(r)

\* C21: HISTORY changes only on a fully successful analyze.  A request that
\* ends at the login check, at the URL check, or in the except clause (after
\* an exception of capture_screenshot, make_scores or build_pdf) leaves
\* HISTORY as it was and never has an entry in it; a request that ends with
\* "OK" puts exactly one entry at index 0, and the entries that were there
\* follow it unchanged and in the same order.
C21_HistoryOnlyOnSuccess ==
    /\ [][HistoryStep]_vars
    /\ [](\A r \in Requests :
            /\ (req[r].pc = "done" /\ req[r].result = "OK")
                   => Cardinality(EntriesOf(r)) = 1
            /\ ~(req[r].pc = "done" /\ req[r].result = "OK")
                   => EntriesOf(r) = {})

\* two requests have succeeded, the second one inserted in front of the
\* first one's entry
C21_Witness ==
    /\ Len(HISTORY) = 2
    /\ HISTORY[1].run # HISTORY[2].run
    /\ \A r \in Requests : req[r].pc = "done" /\ req[r].result = "OK"

-----------------------------------------------------------------------------
(* Where the screenshot is drawn on the page                               *)

\* bottom edge of the header bar drawn by _draw_header
header_bottom == PAGE_H - MARGIN - bar_h

\* the slice sl of the image im, drawn usable_w wide from sl.top downwards,
\* starts below the header bar
BelowHeader(sl) == sl.top < header_bottom

\* the slice's bottom edge, sl.top - sl.h_px * usable_w / im.w, is not below
\* the bottom margin
AboveBottomMargin(im, sl) == (sl.top - MARGIN) * im.w >= sl.h_px * usable_w

\* C22: on every page of the report the screenshot area lies inside the
\* page margins and strictly below the header bar: the top edge of every
\* drawn slice, on page 1 and on every continuation page, is below the
\* bottom edge of the header bar, and its bottom edge is not below the
\* bottom margin.
C22_ScreenshotBelowHeader ==
    \A i \in DOMAIN slices :
        /\ BelowHeader(slices[i])
        /\ AboveBottomMargin(shot, slices[i])

\* the same for the slices of continuation pages alone
C22_ContinuationBelowHeader ==
    \A i \in DOMAIN slices : slices[i].page > 1 => BelowHeader(slices[i])

\* the same for the bottom edge alone
C22_BottomInsideMargin ==
    \A i \in DOMAIN slices : AboveBottomMargin(shot, slices[i])

\* the same for page 1 alone
C22_PageOneBelowHeader ==
    \A i \in DOMAIN slices : slices[i].page = 1 => BelowHeader(slices[i])

-----------------------------------------------------------------------------
(* The wrapped lines of a tip                                              *)

\* the words of the lines read in order
RECURSIVE WordsOf(_)
WordsOf(lines) ==
    IF lines = <<>> THEN <<>> ELSE Head(lines) \o WordsOf(Tail(lines))

\* what the claim says of the lines returned for the words of a tip
WrappedWell(words, lines, max_w) ==
    /\ Len(lines) >= 1
    /\ WordsOf(lines) = words
    /\ \A i \in DOMAIN lines :
          /\ lines[i] # <<>>
          /\ Len(lines[i]) > 1 => FitsWidth(lines[i], max_w)

\* C23: for every tip text in the tips list _wrap_lines returns at least one
\* line, the words of the returned lines read in order are exactly the
\* words of the tip, and every line holding more than one word is no wider
\* than the usable width; hence _recommendations draws the first line of
\* every tip without error.
C23_EveryTipHasFirstLine ==
    /\ rpc # "error"
    /\ lastTip.page # 0 =>
          WrappedWell(lastTip.words, lastTip.lines, usable_w - 14 * pt)

\* the same for the tips that were drawn alone: it leaves out the tip at
\* which _recommendations stopped
C23_DrawnTipsWrappedWell ==
    lastTip.page # 0 =>
        WrappedWell(lastTip.words, lastTip.lines, usable_w - 14 * pt)

=============================================================================
